---------------------------- MODULE Spec2Model ----------------------------
(***************************************************************************)
(* The inverted index of the meta toolkit: the constructor of             *)
(* InvertedIndex (opening a location, empty or built), indexDocs (the      *)
(* chunked build) and search (BM25 scoring), from                          *)
(* src/src/index/inverted_index.cpp.  Lexicon, PostingsStore and          *)
(* Tokenizer are used by that file but defined elsewhere; they are         *)
(* modelled from their documented contract.                                *)
(*                                                                         *)
(* A double is modelled as a fixed-point integer: the value x stands for   *)
(* x / Scale.  Products and quotients round towards zero, which is         *)
(* symmetric in the sign as IEEE rounding is.                              *)
(***************************************************************************)
EXTENDS Integers, Sequences, FiniteSets

VARIABLES
    lexicon,     \* InvertedIndex::_lexicon, the Lexicon object in memory
    postings,    \* InvertedIndex::_postings: chunk files and postings file
    tokenizer,   \* InvertedIndex::_tokenizer: the terms its mapping holds
    files,       \* the files written so far (saved) and what each holds
    documents,   \* the vector<Document> the build was called with
    builds,      \* number of builds started on an empty lexicon
    steps,       \* how many calls of the last build started took effect
    calls,       \* the calls of search in flight, one per caller
    last         \* the last call that ended: operation, arguments, outcome

vars ==
    <<lexicon, postings, tokenizer, files, documents, builds, steps, calls, last>>

----------------------------------------------------------------------------
(* Bounds of the model *)

MaxDocs == 3
MaxTerm == 2
MaxFreq == 1
MaxQueryLen == 2
MaxChunk == 2
MaxBuilds == 2
MaxRebuildDocs == 1
MaxCallers == 2
MaxSealedDocs == 1
Scale == 10000

(* BM25 parameters of search: k1 = k1Num/k1Den, b = bNum/bDen, k3 *)
k1Num == 3
k1Den == 2
bNum == 3
bDen == 4
k3 == 500

Categories == {"a", "b"}

----------------------------------------------------------------------------
(* Generic helpers *)

Range(s) == {s[i] : i \in DOMAIN s}

Min(S) == CHOOSE x \in S : \A y \in S : x <= y

Abs(x) == IF x < 0 THEN -x ELSE x

Sgn(x) == IF x < 0 THEN -1 ELSE IF x > 0 THEN 1 ELSE 0

RECURSIVE SortedSeq(_)
SortedSeq(S) ==
    IF S = {} THEN <<>>
    ELSE LET m == Min(S) IN <<m>> \o SortedSeq(S \ {m})

RECURSIVE SumOver(_, _)
SumOver(S, f) ==
    IF S = {} THEN 0
    ELSE LET x == CHOOSE y \in S : TRUE IN f[x] + SumOver(S \ {x}, f)

RECURSIVE SumSeq(_)
SumSeq(s) == IF s = <<>> THEN 0 ELSE Head(s) + SumSeq(Tail(s))

(* the multiset of the elements of a sequence *)
BagOf(s) == [x \in Range(s) |-> Cardinality({i \in DOMAIN s : s[i] = x})]

Perms(n) == {p \in [1..n -> 1..n] : \A i, j \in 1..n : p[i] = p[j] => i = j}

----------------------------------------------------------------------------
(* Fixed-point arithmetic standing for double arithmetic *)

MulFx(a, b) == Sgn(a) * Sgn(b) * ((Abs(a) * Abs(b)) \div Scale)

DivInt(a, b) == Sgn(a) * Sgn(b) * (Abs(a) \div Abs(b))

(* log(num/den) = 2 atanh(z), z = (num-den)/(num+den), by its power series *)
RECURSIVE AtanhSeries(_, _, _)
AtanhSeries(pow, zz, k) ==
    IF pow = 0 THEN 0
    ELSE DivInt(pow, 2 * k + 1) + AtanhSeries(MulFx(pow, zz), zz, k + 1)

LogFx(num, den) ==
    LET z == DivInt((num - den) * Scale, num + den)
    IN  2 * AtanhSeries(z, MulFx(z, z), 0)

----------------------------------------------------------------------------
(* Documents: a category label and the tokenizer's TermID -> count map *)

TermIDs == 1..MaxTerm
QueryTermIDs == 1..(MaxTerm + 1)

DocTerms(doc) == {t \in DOMAIN doc.freqs : doc.freqs[t] > 0}

DocLength(doc) == SumOver(DOMAIN doc.freqs, doc.freqs)

(* a tokenized document holds at least one term *)
Docs ==
    {doc \in [category : Categories, freqs : [TermIDs -> 0..MaxFreq]] :
        DocTerms(doc) # {}}

RECURSIVE SeqsUpTo(_, _)
SeqsUpTo(S, n) ==
    IF n = 0 THEN {<<>>}
    ELSE LET shorter == SeqsUpTo(S, n - 1)
         IN  shorter \cup {Append(s, x) : s \in {t \in shorter : Len(t) = n - 1}, x \in S}

(* the corpus of the BM25 example: doc A has "cat" (term 1) 3 times and
   length 10, doc B has "dog" (term 2) twice and length 8 *)
ScenarioDocs ==
    << [category |-> "a", freqs |-> <<3, 0, 7>>],
       [category |-> "b", freqs |-> <<0, 2, 6>>] >>


Corpora == SeqsUpTo(Docs, MaxDocs) \cup {ScenarioDocs}

ChunkSizes == 1..MaxChunk

(* the tokenized query: TermID -> count, of at most MaxQueryLen tokens; the
   TermID MaxTerm + 1 is one no document of Docs holds *)
Queries ==
    {freqs \in [QueryTermIDs -> 0..MaxQueryLen] :
        SumOver(QueryTermIDs, freqs) <= MaxQueryLen}

----------------------------------------------------------------------------
(* Lexicon *)

EmptyLexicon ==
    [terms |-> <<>>, numDocs |-> 0, avgDL |-> [num |-> 0, den |-> 1],
     docLengths |-> <<>>, docs |-> <<>>, termMapping |-> {}, built |-> FALSE]

(* true iff no index has been built at the storage location yet: the
   Lexicon found no lexicon file when it was opened and has saved none
   since.  The term table in memory does not count *)
isEmpty(lex) == ~lex.built

containsTermID(lex, id) == id \in DOMAIN lex.terms

getTermInfo(lex, id) == lex.terms[id]

getNumDocs(lex) == lex.numDocs

getAvgDocLength(lex) == lex.avgDL

getDocLength(lex, docID) == lex.docLengths[docID]

getDoc(lex, docID) == lex.docs[docID]

getTermIDMapping(lex) == lex.termMapping

(* Lexicon::save: the term table, the global statistics of docs.lengths,
   docid.mapping and termid.mapping become the lexicon file, in one atomic
   replacement *)
save(st) ==
    LET lex == [terms |-> st.lexicon.terms,
                numDocs |-> st.files.lengths.numDocs,
                avgDL |-> [num |-> st.files.lengths.sumLen,
                           den |-> st.files.lengths.numDocs],
                docLengths |-> st.files.lengths.lengths,
                docs |-> st.files.docid,
                termMapping |-> st.files.termid,
                built |-> TRUE]
    IN  [st EXCEPT !.lexicon = lex, !.files.lexicon = lex,
                   !.files.saved = @ \cup {"lexicon"}]

----------------------------------------------------------------------------
(* PostingsStore: chunked construction *)

EmptyPostings == [chunks |-> <<>>, file |-> <<>>, docs |-> <<>>]

(* no file saved yet *)
NoFiles ==
    [saved |-> {}, termid |-> {}, docid |-> <<>>,
     lengths |-> [lengths |-> <<>>, numDocs |-> 0, sumLen |-> 0],
     lexicon |-> EmptyLexicon]

(* Lexicon::Lexicon(lexiconFile): the lexicon file is loaded if there is
   one; without it the Lexicon is empty *)
Lexicon(fs) == IF "lexicon" \in fs.saved THEN fs.lexicon ELSE EmptyLexicon

(* PostingsStore::PostingsStore(postingsFile): the chunk files and the
   postings file are those of the location; the DocID mapping gathered by
   createChunks was held in memory by the object before *)
PostingsStore(post) == [post EXCEPT !.docs = <<>>]

(* a Tokenizer that holds no mapping yet.  What tokenize does with a term
   its mapping does not hold is the tokenizer's own: it leaves the term out
   of the frequencies, or it gives it a TermID (assigns) *)
NewTokenizer(assigns) == [mapping |-> {}, assigns |-> assigns]

(* Tokenizer::setTermIDMapping: the mapping is replaced *)
setTermIDMapping(tok, mapping) == [tok EXCEPT !.mapping = mapping]

(* tokenized footprint of a document: one posting per distinct term *)
Footprint(doc) == Cardinality(DocTerms(doc))

(* sequential groups of DocIDs whose combined footprint stays within limit;
   a document larger than the limit forms a chunk of its own *)
RECURSIVE Partition(_, _, _, _, _)
Partition(docs, limit, i, cur, size) ==
    IF i > Len(docs) THEN (IF cur = <<>> THEN <<>> ELSE <<cur>>)
    ELSE LET fp == Footprint(docs[i])
         IN  IF cur # <<>> /\ size + fp > limit
             THEN <<cur>> \o Partition(docs, limit, i + 1, <<i>>, fp)
             ELSE Partition(docs, limit, i + 1, Append(cur, i), size + fp)

(* one sorted partial-postings file: its terms ascending, each with the
   postings of the group's documents in document order *)
ChunkOf(docs, ids) ==
    LET terms == UNION {DocTerms(docs[ids[k]]) : k \in DOMAIN ids}
        order == SortedSeq(terms)
        having(t) == SelectSeq(ids, LAMBDA d : t \in DocTerms(docs[d]))
    IN  [j \in DOMAIN order |->
            [term |-> order[j],
             docs |-> [k \in DOMAIN having(order[j]) |->
                         [docID |-> having(order[j])[k],
                          freq |-> docs[having(order[j])[k]].freqs[order[j]]]]]]

createChunks(st, docs, limit) ==
    LET groups == Partition(docs, limit, 1, <<>>, 0)
    IN  [st EXCEPT
            !.postings.chunks = [g \in DOMAIN groups |-> ChunkOf(docs, groups[g])],
            !.postings.docs = [d \in DOMAIN docs |-> docs[d].category],
            !.tokenizer.mapping = @ \cup UNION {DocTerms(docs[d]) : d \in DOMAIN docs}]

RECURSIVE ConcatHeads(_, _, _, _)
ConcatHeads(chunks, pos, t, i) ==
    IF i > Len(chunks) THEN <<>>
    ELSE (IF pos[i] <= Len(chunks[i]) /\ chunks[i][pos[i]].term = t
          THEN chunks[i][pos[i]].docs ELSE <<>>)
         \o ConcatHeads(chunks, pos, t, i + 1)

(* the k-way merge by ascending TermID: the smallest head term is written
   with the postings of every chunk whose head it is, in chunk order *)
RECURSIVE MergeChunks(_, _)
MergeChunks(chunks, pos) ==
    LET active == {i \in DOMAIN chunks : pos[i] <= Len(chunks[i])}
    IN  IF active = {} THEN <<>>
        ELSE LET t == Min({chunks[i][pos[i]].term : i \in active})
                 next == [i \in DOMAIN chunks |->
                            IF i \in active /\ chunks[i][pos[i]].term = t
                            THEN pos[i] + 1 ELSE pos[i]]
             IN  <<[term |-> t, docs |-> ConcatHeads(chunks, pos, t, 1)]>>
                 \o MergeChunks(chunks, next)

Merged(chunks) == MergeChunks(chunks, [i \in DOMAIN chunks |-> 1])

(* the first numChunks chunk files are merged into the postings file; each
   term gets its document frequency (distinct DocIDs) and its offset *)
createPostingsFile(st, numChunks) ==
    LET file == Merged(SubSeq(st.postings.chunks, 1, numChunks))
        at(t) == CHOOSE j \in DOMAIN file : file[j].term = t
    IN  [st EXCEPT
            !.postings.file = file,
            !.lexicon.terms =
                [t \in {file[j].term : j \in DOMAIN file} |->
                    [idf |-> Cardinality({p.docID : p \in Range(file[at(t)].docs)}),
                     offset |-> at(t)]]]

getDocs(post, termData) == post.file[termData.offset].docs

saveDocLengths(st, docs) ==
    LET lengths == [d \in DOMAIN docs |-> DocLength(docs[d])]
    IN  [st EXCEPT
            !.files.lengths =
                [lengths |-> lengths, numDocs |-> Len(docs), sumLen |-> SumSeq(lengths)],
            !.files.saved = @ \cup {"docs.lengths"}]

saveDocIDMapping(st) ==
    [st EXCEPT !.files.docid = st.postings.docs,
               !.files.saved = @ \cup {"docid.mapping"}]

(* Tokenizer::saveTermIDMapping *)
saveTermIDMapping(st) ==
    [st EXCEPT !.files.termid = st.tokenizer.mapping,
               !.files.saved = @ \cup {"termid.mapping"}]

----------------------------------------------------------------------------
(* InvertedIndex::search *)

(* the smoothed variant log(1 + (numDocs - idf + 0.5) / (idf + 0.5)) *)
IDF_PlusOne(numDocs, idf) == LogFx(2 * numDocs + 2, 2 * idf + 1)

(* the quotient inverted: log((idf + 0.5) / (numDocs - idf + 0.5)) *)
IDF_Inverted(numDocs, idf) == LogFx(2 * idf + 1, 2 * numDocs - 2 * idf + 1)

(* IDF = log((numDocs - idf + 0.5) / (idf + 0.5)), both sides doubled *)
IDF(numDocs, idf) == LogFx(2 * numDocs - 2 * idf + 1, 2 * idf + 1)

(* TF = ((k1 + 1) freq) / (k1 ((1 - b) + b docLength / avgDL) + freq), with
   avgDL = num/den and every fraction cleared *)
TF(freq, docLength, avgDL) ==
    DivInt((k1Num + k1Den) * freq * bDen * avgDL.num * Scale,
           k1Num * ((bDen - bNum) * avgDL.num + bNum * docLength * avgDL.den)
             + freq * k1Den * bDen * avgDL.num)

(* QTF = ((k3 + 1) queryTermFreq) / (k3 + queryTermFreq) *)
QTF(queryTermFreq) == DivInt((k3 + 1) * queryTermFreq * Scale, k3 + queryTermFreq)

(* score = TF * IDF * QTF of one posting *)
PostingScore(lex, termData, doc, queryTermFreq) ==
    MulFx(MulFx(TF(doc.freq, getDocLength(lex, doc.docID), getAvgDocLength(lex)),
                IDF(getNumDocs(lex), termData.idf)),
          QTF(queryTermFreq))

(* without the skip: every query term is looked up *)
LookedUp_NoSkip(lex, freqs) == {t \in DOMAIN freqs : freqs[t] > 0}

(* the query terms the loop goes on to look up: a term the lexicon does not
   contain is skipped *)
LookedUp(lex, freqs) ==
    {t \in DOMAIN freqs : freqs[t] > 0 /\ containsTermID(lex, t)}

(* docList of a looked-up term *)
DocList(lex, post, t) ==
    IF containsTermID(lex, t) THEN getDocs(post, getTermInfo(lex, t)) ELSE <<>>

(* the scores map after the loops: a key for every document of a docList,
   its value the sum of that document's posting scores *)
Scores(lex, post, freqs) ==
    LET terms == LookedUp(lex, freqs)
        keys == UNION {{p.docID : p \in Range(DocList(lex, post, t))} : t \in terms}
        ofTerm(d, t) ==
            LET list == DocList(lex, post, t)
            IN  SumSeq([i \in DOMAIN list |->
                          IF list[i].docID = d
                          THEN PostingScore(lex, getTermInfo(lex, t), list[i], freqs[t])
                          ELSE 0])
    IN  [d \in keys |-> SumOver(terms, [t \in terms |-> ofTerm(d, t)])]

(* a lookup the Lexicon cannot answer: getTermInfo of an unindexed term,
   getDocLength or getDoc of a document it holds no record of *)
SearchError(lex, post, freqs) ==
    LET terms == LookedUp(lex, freqs)
    IN  IF \E t \in terms : ~containsTermID(lex, t) THEN "TermNotFound"
        ELSE IF \E t \in terms : \E p \in Range(DocList(lex, post, t)) :
                    p.docID \notin DOMAIN lex.docLengths \/ p.docID \notin DOMAIN lex.docs
        THEN "NotFound"
        ELSE "none"

(* only the nonzero scores inserted *)
Inserted_Nonzero(scores) == {d \in DOMAIN scores : scores[d] # 0}

(* the entries of the scores map that are inserted into the results *)
Inserted(scores) == DOMAIN scores

(* std::greater in place of std::less *)
KeyOrder_Descending(a, b) == a >= b

(* the key order of multimap<double, string>: std::less *)
KeyOrder(a, b) == a <= b

(* the multimap read front to back: one (score, category) entry per
   inserted document, keys in order, equal keys in any order (the scores
   map is unordered) *)
Results(lex, scores) ==
    LET ds == Inserted(scores)
        n == Cardinality(ds)
        orders == {p \in [1..n -> ds] :
                     /\ \A i, j \in 1..n : p[i] = p[j] => i = j
                     /\ \A i, j \in 1..n : i < j => KeyOrder(scores[p[i]], scores[p[j]])}
    IN  {[i \in 1..n |-> [score |-> scores[p[i]], category |-> getDoc(lex, p[i])]] :
            p \in orders}

(* Tokenizer::tokenize of the query, a non-const call on the tokenizer the
   index shares: a query term the mapping does not hold is left out of the
   frequencies, or is given a TermID, which the mapping then holds *)
tokenize(tok, query) ==
    IF tok.assigns
    THEN [tokenizer |-> [tok EXCEPT !.mapping = @ \cup {t \in DOMAIN query : query[t] > 0}],
          freqs |-> query]
    ELSE [tokenizer |-> tok,
          freqs |-> [t \in DOMAIN query |-> IF t \in tok.mapping THEN query[t] ELSE 0]]

(* a call of search that no other call overlaps, start to end.  search is a
   const method: _lexicon and _postings are read through const access, and
   the one object it can change is the tokenizer behind the shared pointer *)
search(query) ==
    LET tk == tokenize(tokenizer, query)
        err == SearchError(lexicon, postings, tk.freqs)
        scores == IF err = "none" THEN Scores(lexicon, postings, tk.freqs) ELSE <<>>
    IN  /\ \E res \in (IF err = "none" THEN Results(lexicon, scores) ELSE {<<>>}) :
               last' = [op |-> "search", error |-> err, query |-> query,
                        scores |-> scores, results |-> res]
        /\ tokenizer' = tk.tokenizer
        /\ UNCHANGED <<lexicon, postings, files, documents, builds, steps, calls>>

----------------------------------------------------------------------------
(* InvertedIndex::search, call by call and step by step: callers that share
   the index, each between two steps of another *)

Callers == 1..MaxCallers

IdleCall == [pc |-> "idle", query |-> <<>>, freqs |-> <<>>, todo |-> {}, scores |-> <<>>]

(* a scores map kept from call to call (a static local) *)
ScoresAtEntry_Kept(kept) == kept

(* the scores map of a call is a local of its own, empty at entry *)
ScoresAtEntry(kept) == <<>>

(* one pass of the outer loop, for the query term t: nothing for a term the
   lexicon does not contain; else the score of every posting of its docList
   is added to the entry of its document, created at zero if there is none *)
AddScores(scores, lex, post, t, queryTermFreq) ==
    IF ~containsTermID(lex, t) THEN scores
    ELSE LET termData == getTermInfo(lex, t)
             docList == getDocs(post, termData)
             ids == {p.docID : p \in Range(docList)}
             added(d) ==
                 SumSeq([i \in DOMAIN docList |->
                           IF docList[i].docID = d
                           THEN PostingScore(lex, termData, docList[i], queryTermFreq)
                           ELSE 0])
         IN  [d \in DOMAIN scores \cup ids |->
                 (IF d \in DOMAIN scores THEN scores[d] ELSE 0)
                   + (IF d \in ids THEN added(d) ELSE 0)]

(* the frequencies of a query of the one term t *)
OnlyTerm(freqs, t) == [u \in DOMAIN freqs |-> IF u = t THEN freqs[t] ELSE 0]

(* entry of a call up to the loop: the query is tokenized *)
Enter(c, query) ==
    LET tk == tokenize(tokenizer, query)
    IN  /\ calls[c].pc = "idle"
        /\ tokenizer' = tk.tokenizer
        /\ calls' = [calls EXCEPT ![c] =
                        [pc |-> "loop", query |-> query, freqs |-> tk.freqs,
                         todo |-> {t \in DOMAIN tk.freqs : tk.freqs[t] > 0},
                         scores |-> ScoresAtEntry(last.scores)]]
        /\ UNCHANGED <<lexicon, postings, files, documents, builds, steps, last>>

(* one pass of the loop over the frequencies, an unordered_map: any term
   not yet taken; a lookup the Lexicon cannot answer ends the call *)
Term(c, t) ==
    LET call == calls[c]
        err == SearchError(lexicon, postings, OnlyTerm(call.freqs, t))
    IN  /\ call.pc = "loop"
        /\ t \in call.todo
        /\ IF err = "none"
           THEN /\ calls' = [calls EXCEPT
                               ![c].scores = AddScores(call.scores, lexicon, postings,
                                                       t, call.freqs[t]),
                               ![c].todo = call.todo \ {t}]
                /\ UNCHANGED last
           ELSE /\ calls' = [calls EXCEPT ![c] = IdleCall]
                /\ last' = [op |-> "search", error |-> err, query |-> call.query,
                            scores |-> <<>>, results |-> <<>>]
        /\ UNCHANGED <<lexicon, postings, tokenizer, files, documents, builds, steps>>

(* the loop is over: the scores go into the multimap, which is returned *)
Return(c) ==
    LET call == calls[c]
    IN  /\ call.pc = "loop"
        /\ call.todo = {}
        /\ \E res \in Results(lexicon, call.scores) :
               last' = [op |-> "search", error |-> "none", query |-> call.query,
                        scores |-> call.scores, results |-> res]
        /\ calls' = [calls EXCEPT ![c] = IdleCall]
        /\ UNCHANGED <<lexicon, postings, tokenizer, files, documents, builds, steps>>

----------------------------------------------------------------------------
(* InvertedIndex::indexDocs *)

(* the guard left out: the build runs on any lexicon *)
AlreadyIndexed_NoGuard(lex) == FALSE

AlreadyIndexed(lex) == ~isEmpty(lex)

CallCreateChunks(st, docs, chunkMBSize) == createChunks(st, docs, chunkMBSize)

(* the chunks taken for one whatever createChunks returned *)
NumChunks_One(st) == IF st.postings.chunks = <<>> THEN 0 ELSE 1

NumChunks(st) == Len(st.postings.chunks)

(* the last chunk left out of the merge *)
CallCreatePostingsFile_OffByOne(st, numChunks) ==
    createPostingsFile(st, IF numChunks > 0 THEN numChunks - 1 ELSE 0)

CallCreatePostingsFile(st, numChunks) == createPostingsFile(st, numChunks)

(* the calls of the build with save before saveDocLengths *)
BuildSteps_SaveBeforeLengths ==
    <<"createChunks", "saveTermIDMapping", "saveDocIDMapping",
      "createPostingsFile", "save", "saveDocLengths">>

(* the calls of the build, in the order of the code *)
BuildSteps ==
    <<"createChunks", "saveTermIDMapping", "saveDocIDMapping",
      "createPostingsFile", "saveDocLengths", "save">>

Call(name, st, docs, chunkMBSize) ==
    CASE name = "createChunks" -> CallCreateChunks(st, docs, chunkMBSize)
      [] name = "saveTermIDMapping" -> saveTermIDMapping(st)
      [] name = "saveDocIDMapping" -> saveDocIDMapping(st)
      [] name = "createPostingsFile" -> CallCreatePostingsFile(st, NumChunks(st))
      [] name = "saveDocLengths" -> saveDocLengths(st, docs)
      [] name = "save" -> save(st)

RECURSIVE Run(_, _, _, _, _)
Run(st, docs, chunkMBSize, k, done) ==
    IF k > done THEN st
    ELSE Run(Call(BuildSteps[k], st, docs, chunkMBSize), docs, chunkMBSize, k + 1, done)

(* how a build ends: the first done calls took effect, and it returned or
   threw.  A call that throws does so before its effect or after it, so a
   build that threw may have any number of calls done, all six included;
   one that returned has them all *)
Outcomes ==
    {o \in [done : 0..Len(BuildSteps), threw : BOOLEAN] :
        o.threw \/ o.done = Len(BuildSteps)}

(* the state the build leaves when its first done calls took effect: there
   is no handler in indexDocs, so what a call did stays done *)
Build(st, docs, chunkMBSize, done) == Run(st, docs, chunkMBSize, 1, done)

NoResult(op, err) ==
    [op |-> op, error |-> err, query |-> <<>>, scores |-> <<>>, results |-> <<>>]

indexDocs(docs, chunkMBSize, outcome) ==
    IF AlreadyIndexed(lexicon)
    THEN /\ last' = NoResult("indexDocs", "AlreadyIndexed")
         /\ UNCHANGED <<lexicon, postings, tokenizer, files, documents, builds,
                        steps, calls>>
    ELSE LET st == Build([lexicon |-> lexicon, postings |-> postings,
                          tokenizer |-> tokenizer, files |-> files],
                         docs, chunkMBSize, outcome.done)
         IN  /\ lexicon' = st.lexicon
             /\ postings' = st.postings
             /\ tokenizer' = st.tokenizer
             /\ files' = st.files
             /\ documents' = docs
             /\ builds' = builds + 1
             /\ steps' = outcome.done
             /\ UNCHANGED calls
             /\ last' = NoResult("indexDocs", IF outcome.threw THEN "StorageIO" ELSE "none")

----------------------------------------------------------------------------
(* InvertedIndex::InvertedIndex *)

(* the members after construction over the files fs and the postings post
   of a location, with the tokenizer tok: a lexicon that has content gives
   the tokenizer its term mapping *)
InvertedIndex(fs, post, tok) ==
    LET lex == Lexicon(fs)
    IN  [lexicon |-> lex,
         postings |-> PostingsStore(post),
         tokenizer |-> IF ~isEmpty(lex)
                       THEN setTermIDMapping(tok, getTermIDMapping(lex))
                       ELSE tok]

(* a new InvertedIndex over the location as it stands *)
Construct(tok) ==
    LET index == InvertedIndex(files, postings, tok)
    IN  /\ lexicon' = index.lexicon
        /\ postings' = index.postings
        /\ tokenizer' = index.tokenizer
        /\ last' = NoResult("construct", "none")
        /\ UNCHANGED <<files, documents, builds, steps, calls>>

----------------------------------------------------------------------------
(* The index after construction on an empty location with a tokenizer that
   holds no mapping yet and is of the documented kind: it leaves a query
   term it does not know out of the frequencies *)

Init ==
    LET index == InvertedIndex(NoFiles, EmptyPostings, NewTokenizer(FALSE))
    IN  /\ lexicon = index.lexicon
        /\ postings = index.postings
        /\ tokenizer = index.tokenizer
        /\ files = NoFiles
        /\ documents = <<>>
        /\ builds = 0
        /\ steps = 0
        /\ calls = [c \in Callers |-> IdleCall]
        /\ last = NoResult("construct", "none")

(* the tokenizer a new InvertedIndex is given: the one in use or a new one
   of its kind *)
Tokenizers == {tokenizer, NewTokenizer(tokenizer.assigns)}

(* the arguments of a call of indexDocs and how it ends: on an empty
   lexicon any corpus, chunk size and outcome for the first build, and for
   a build after it, while builds remain, a corpus of at most
   MaxRebuildDocs documents where the build before was of as few; on a
   non-empty lexicon the call is refused before it reads them, and two
   samples stand for all *)
Calls ==
    IF isEmpty(lexicon)
    THEN (IF builds >= MaxBuilds THEN {}
          ELSE IF builds = 0 THEN Corpora \X ChunkSizes \X Outcomes
          ELSE IF Len(documents) <= MaxRebuildDocs
          THEN SeqsUpTo(Docs, MaxRebuildDocs) \X ChunkSizes \X Outcomes
          ELSE {})
    ELSE {<<ScenarioDocs, 1, [done |-> Len(BuildSteps), threw |-> FALSE]>>,
          <<<<>>, MaxChunk, [done |-> 0, threw |-> TRUE]>>}

IndexDocs == \E call \in Calls : indexDocs(call[1], call[2], call[3])

Search == \E query \in Queries : search(query)

Reopen == \E tok \in Tokenizers : Construct(tok)

Next == IndexDocs \/ Search \/ Reopen

Spec == Init /\ [][Next]_vars

----------------------------------------------------------------------------
(* Searches of a sealed index by callers that overlap, between them calls
   of indexDocs *)

SealedCorpora == {docs \in Corpora : Len(docs) <= MaxSealedDocs} \cup {ScenarioDocs}

(* the index after construction on an empty location, with a tokenizer of
   either kind, and a build that ran to its end *)
InitSealed ==
    \E docs \in SealedCorpora, chunkMBSize \in ChunkSizes, assigns \in BOOLEAN :
        LET index == InvertedIndex(NoFiles, EmptyPostings, NewTokenizer(assigns))
            st == Build([lexicon |-> index.lexicon, postings |-> index.postings,
                         tokenizer |-> index.tokenizer, files |-> NoFiles],
                        docs, chunkMBSize, Len(BuildSteps))
        IN  /\ lexicon = st.lexicon
            /\ postings = st.postings
            /\ tokenizer = st.tokenizer
            /\ files = st.files
            /\ documents = docs
            /\ builds = 1
            /\ steps = Len(BuildSteps)
            /\ calls = [c \in Callers |-> IdleCall]
            /\ last = NoResult("indexDocs", "none")

EnterSearch == \E c \in Callers, query \in Queries : Enter(c, query)

ScoreTerm == \E c \in Callers, t \in QueryTermIDs : Term(c, t)

ReturnResults == \E c \in Callers : Return(c)

NextSearch == EnterSearch \/ ScoreTerm \/ ReturnResults \/ IndexDocs

SearchSpec == InitSealed /\ [][NextSearch]_vars

----------------------------------------------------------------------------
(* What the claims speak of *)

(* a build ran to its end: the lexicon file is saved *)
Built == "lexicon" \in files.saved

(* every artifact of the index is complete for the documents given *)
FullyBuilt ==
    /\ files.saved = {"termid.mapping", "docid.mapping", "docs.lengths", "lexicon"}
    /\ DOMAIN lexicon.terms = UNION {DocTerms(documents[d]) : d \in DOMAIN documents}
    /\ {postings.file[j].term : j \in DOMAIN postings.file} = DOMAIN lexicon.terms
    /\ DOMAIN lexicon.docLengths = DOMAIN documents
    /\ DOMAIN lexicon.docs = DOMAIN documents
    /\ lexicon.numDocs = Len(documents)
    /\ DOMAIN files.docid = DOMAIN documents
    /\ DOMAIN lexicon.terms \subseteq files.termid

SearchedBuilt == Built /\ last.op = "search" /\ last.error = "none"

(* the corpus statistics, from the documents themselves *)
CorpusDf(t) == Cardinality({d \in DOMAIN documents : t \in DocTerms(documents[d])})

CorpusAvgDL ==
    [num |-> SumSeq([d \in DOMAIN documents |-> DocLength(documents[d])]),
     den |-> Len(documents)]

(* the documents holding at least one term of the query *)
Matching(q) ==
    {d \in DOMAIN documents : \E t \in DOMAIN q : q[t] > 0 /\ t \in DocTerms(documents[d])}

(* the BM25 score of document d for query q, from the documents themselves *)
RefScore(d, q) ==
    LET ts == {t \in DOMAIN q : q[t] > 0 /\ t \in DocTerms(documents[d])}
    IN  SumOver(ts, [t \in ts |->
            MulFx(MulFx(TF(documents[d].freqs[t], DocLength(documents[d]), CorpusAvgDL),
                        IDF(Len(documents), CorpusDf(t))),
                  QTF(q[t]))])

(* the multiset of (score, category) entries of the documents D *)
Entries(D, q) ==
    LET order == SortedSeq(D)
    IN  BagOf([i \in DOMAIN order |->
                 [score |-> RefScore(order[i], q),
                  category |-> documents[order[i]].category]])

----------------------------------------------------------------------------
(* C1: a call of indexDocs on a non-empty lexicon ends with AlreadyIndexed
   and runs no build step: the lexicon, the postings file and chunk files,
   termid.mapping, docid.mapping and docs.lengths stay as they were. *)
C1_SecondBuildRefused ==
    [][(~isEmpty(lexicon) /\ last'.op = "indexDocs")
          => /\ last'.error = "AlreadyIndexed"
             /\ UNCHANGED <<lexicon, postings, tokenizer, files>>]_vars

(* a second call after a build that ran to its end was refused, made
   through a new InvertedIndex over the built location *)
C1_Witness ==
    /\ Built /\ ~isEmpty(lexicon) /\ DOMAIN lexicon.terms # {}
    /\ postings.file # <<>>
    /\ postings.docs = <<>> /\ tokenizer.mapping = getTermIDMapping(lexicon)
    /\ last.op = "indexDocs" /\ last.error = "AlreadyIndexed"

(* C2: in every reachable state, those left by a build that threw at any
   of its calls included, the index is fully absent or fully built: a
   lexicon that is not empty comes with the term table, the postings file,
   the document lengths and both mappings complete, and a search while the
   lexicon is empty scores no document. *)
C2_AbsentOrFullyBuilt ==
    /\ ~isEmpty(lexicon) => FullyBuilt
    /\ (isEmpty(lexicon) /\ last.op = "search") => last.results = <<>>

(* a search through the index whose build threw at saveDocLengths or at save
   after the term table was filled: the lexicon is empty though every file
   but its own is written *)
C2_Witness ==
    /\ isEmpty(lexicon) /\ steps = 5 /\ DOMAIN lexicon.terms # {}
    /\ postings.file # <<>> /\ "docs.lengths" \in files.saved
    /\ last.op = "search" /\ last.query[1] > 0

(* C3 as stated: the result of search on a built index holds exactly the
   documents whose accumulated score is nonzero, each with its category. *)
C3_OnlyNonzeroScores ==
    SearchedBuilt =>
        BagOf(last.results)
          = Entries({d \in DOMAIN documents : RefScore(d, last.query) # 0}, last.query)

(* C3 amended: the result of search on a built index holds exactly the
   documents that hold at least one term of the query, each with its score
   and category, a score of zero included; a document holding no term of
   the query is not in it. *)
C3_EveryMatchingDocument ==
    SearchedBuilt => BagOf(last.results) = Entries(Matching(last.query), last.query)

(* a result with a zero-score entry, and a document left out *)
C3_Witness ==
    /\ SearchedBuilt
    /\ \E i \in DOMAIN last.results : last.results[i].score = 0
    /\ Len(last.results) < Len(documents)

(* C4: on a built index a query whose terms are all absent from the lexicon
   gets the empty result and no error, and no search ends with
   TermNotFound: an absent term is skipped before getTermInfo. *)
C4_AbsentTermsSkipped ==
    (Built /\ last.op = "search") =>
        /\ last.error # "TermNotFound"
        /\ (\A t \in DOMAIN last.query :
                last.query[t] > 0 => ~containsTermID(lexicon, t))
             => (last.error = "none" /\ last.results = <<>> /\ last.scores = <<>>)

(* a search of a non-empty built index for a term it does not hold, which
   the tokenizer knows and so passes on to the loop *)
C4_Witness ==
    /\ Built /\ DOMAIN lexicon.terms # {} /\ last.op = "search"
    /\ \E t \in DOMAIN last.query : last.query[t] > 0 /\ t \in tokenizer.mapping
    /\ \A t \in DOMAIN last.query : last.query[t] > 0 => ~containsTermID(lexicon, t)
    /\ last.results = <<>>

(* C5: in every step of searches that overlap on a sealed index, with calls
   of indexDocs between them, the Lexicon, the PostingsStore and the files
   stay as they are, and a call that returns has the scores and a result
   that a call of its query alone has on that index, whatever the other
   callers did to the tokenizer meanwhile. *)
C5_SearchReadOnly ==
    [][/\ UNCHANGED <<lexicon, postings, files>>
       /\ \A c \in Callers :
             (calls[c].pc = "loop" /\ calls'[c].pc = "idle")
                => /\ last'.error = "none"
                   /\ last'.query = calls[c].query
                   /\ last'.scores = Scores(lexicon, postings, calls[c].query)
                   /\ last'.results \in Results(lexicon, last'.scores)]_vars

(* a call returned a scored document while another call is in its loop with
   one term scored and one to go, and a query term was given a TermID *)
C5_Witness ==
    /\ last.op = "search" /\ last.error = "none" /\ last.results # <<>>
    /\ \E c \in Callers :
          calls[c].pc = "loop" /\ calls[c].scores # <<>> /\ calls[c].todo # {}
    /\ tokenizer.mapping # getTermIDMapping(lexicon)

(* the BM25 example: the corpus of ScenarioDocs built, then searched for
   "cat" (term 1) alone *)
ScenarioSearched ==
    /\ SearchedBuilt
    /\ documents = ScenarioDocs
    /\ last.query = [t \in QueryTermIDs |-> IF t = 1 THEN 1 ELSE 0]

(* C6 as stated: in the example the result is one entry, for doc A, with a
   strictly positive score. *)
C6_ScenarioScorePositive ==
    ScenarioSearched =>
        /\ Len(last.results) = 1
        /\ last.results[1].category = "a"
        /\ last.results[1].score > 0

(* C6 amended: in the example (N = 2, df = 1, lengths 10 and 8, average 9)
   the result is one entry, for doc A, and its score is exactly zero,
   because IDF = log(1.5 / 1.5) = 0; doc B has no entry. *)
C6_ScenarioScoreZero ==
    ScenarioSearched =>
        /\ getNumDocs(lexicon) = 2
        /\ getTermInfo(lexicon, 1).idf = 1
        /\ lexicon.docLengths = <<10, 8>>
        /\ getAvgDocLength(lexicon).num = 9 * getAvgDocLength(lexicon).den
        /\ last.results = <<[score |-> 0, category |-> "a"]>>

C6_Witness == ScenarioSearched /\ Len(last.results) = 1

(* the postings file with the frequency of posting i of term t raised by one *)
Raised(post, lex, t, i) ==
    [post EXCEPT !.file[getTermInfo(lex, t).offset].docs[i].freq = @ + 1]

(* the score of the document of posting i of term t, as it is and with that
   posting's frequency raised by one *)
ScoreNow(t, i) ==
    Scores(lexicon, postings, last.query)[DocList(lexicon, postings, t)[i].docID]

ScoreRaised(t, i) ==
    Scores(lexicon, Raised(postings, lexicon, t, i), last.query)
        [DocList(lexicon, postings, t)[i].docID]

(* C7 as stated: raising a document's count for a query term, all else
   equal, never lowers its score, whatever df is. *)
C7_MonotoneForEveryDf ==
    SearchedBuilt =>
        \A t \in LookedUp(lexicon, last.query) :
            \A i \in DOMAIN DocList(lexicon, postings, t) :
                ScoreRaised(t, i) >= ScoreNow(t, i)

(* C7 amended: raising a document's count for a query term, all else equal,
   does not lower its score when df <= N/2 (IDF >= 0); when df > N/2 the
   IDF is negative and the score does not rise. *)
C7_MonotoneWhereIdfNonNegative ==
    SearchedBuilt =>
        \A t \in LookedUp(lexicon, last.query) :
            \A i \in DOMAIN DocList(lexicon, postings, t) :
                IF 2 * getTermInfo(lexicon, t).idf <= getNumDocs(lexicon)
                THEN ScoreRaised(t, i) >= ScoreNow(t, i)
                ELSE ScoreRaised(t, i) <= ScoreNow(t, i)

(* a term of fewer than half the documents whose raised count raises the
   score, and a term of more than half whose raised count lowers it *)
C7_Witness ==
    /\ SearchedBuilt
    /\ \E t \in LookedUp(lexicon, last.query) :
          \E i \in DOMAIN DocList(lexicon, postings, t) :
              /\ 2 * getTermInfo(lexicon, t).idf < getNumDocs(lexicon)
              /\ ScoreRaised(t, i) > ScoreNow(t, i)
    /\ \E t \in LookedUp(lexicon, last.query) :
          \E i \in DOMAIN DocList(lexicon, postings, t) :
              /\ 2 * getTermInfo(lexicon, t).idf > getNumDocs(lexicon)
              /\ ScoreRaised(t, i) < ScoreNow(t, i)

(* C8: after a build that ran to its end, whatever the chunking, the terms
   of the lexicon are the terms of the documents, the document frequency of
   each (the df of search's IDF) is the number of documents holding it,
   which is the number of distinct DocIDs of its posting list, and every
   term of the postings file is in the lexicon. *)
C8_DocumentFrequencyExact ==
    Built =>
        /\ DOMAIN lexicon.terms = UNION {DocTerms(documents[d]) : d \in DOMAIN documents}
        /\ \A t \in DOMAIN lexicon.terms :
              /\ getTermInfo(lexicon, t).idf = CorpusDf(t)
              /\ getTermInfo(lexicon, t).idf
                   = Cardinality({p.docID : p \in Range(DocList(lexicon, postings, t))})
        /\ \A j \in DOMAIN postings.file : containsTermID(lexicon, postings.file[j].term)

(* a term held by two documents of different chunks, more often than once
   in one of them *)
C8_Witness ==
    /\ Built /\ Len(postings.chunks) >= 2
    /\ \E t \in DOMAIN lexicon.terms :
          /\ getTermInfo(lexicon, t).idf = 2
          /\ \E d \in DOMAIN documents :
                t \in DocTerms(documents[d]) /\ documents[d].freqs[t] > 1

(* the postings of each term of a merged file, as a multiset *)
TermBags(file) ==
    [t \in {file[j].term : j \in DOMAIN file} |->
        BagOf((CHOOSE e \in Range(file) : e.term = t).docs)]

RECURSIVE AllPostings(_, _, _)
AllPostings(chunks, t, i) ==
    IF i > Len(chunks) THEN <<>>
    ELSE (IF \E e \in Range(chunks[i]) : e.term = t
          THEN (CHOOSE e \in Range(chunks[i]) : e.term = t).docs ELSE <<>>)
         \o AllPostings(chunks, t, i + 1)

(* the postings of each term over all chunks, as a multiset *)
UnionBags(chunks) ==
    [t \in UNION {{e.term : e \in Range(chunks[i])} : i \in DOMAIN chunks} |->
        BagOf(AllPostings(chunks, t, 1))]

Permuted(chunks, p) == [i \in DOMAIN chunks |-> chunks[p[i]]]

(* C9: once the postings file is written, it holds each term once, and the
   merge of the chunk files taken in any order holds for each term the same
   multiset of postings as it does: the union of that term's postings over
   all chunks. *)
C9_MergeOrderIndependent ==
    steps >= 4 =>
        /\ \A i, j \in DOMAIN postings.file :
              i < j => postings.file[i].term < postings.file[j].term
        /\ TermBags(postings.file) = UnionBags(postings.chunks)
        /\ \A p \in Perms(Len(postings.chunks)) :
              TermBags(Merged(Permuted(postings.chunks, p))) = UnionBags(postings.chunks)

(* three chunks merged, where another order gives a different postings file *)
C9_Witness ==
    /\ Built /\ Len(postings.chunks) = 3
    /\ \E p \in Perms(Len(postings.chunks)) :
          Merged(Permuted(postings.chunks, p)) # postings.file

(* C10: the result of search on a built index is in ascending order of
   score, has one entry for each scored document, ties and equal categories
   included, and each document's score is the sum of TF * IDF * QTF over
   the query terms it holds. *)
C10_AscendingSumOfContributions ==
    SearchedBuilt =>
        /\ \A i, j \in DOMAIN last.results :
              i < j => last.results[i].score <= last.results[j].score
        /\ Len(last.results) = Cardinality(DOMAIN last.scores)
        /\ \A d \in DOMAIN last.scores : last.scores[d] = RefScore(d, last.query)
        /\ BagOf([i \in DOMAIN last.results |-> last.results[i].score])
             = BagOf([i \in DOMAIN SortedSeq(DOMAIN last.scores) |->
                        last.scores[SortedSeq(DOMAIN last.scores)[i]]])

(* two entries equal in score and category before a third of a higher
   score, for a query of two terms *)
C10_Witness ==
    /\ SearchedBuilt /\ Len(last.results) = 3
    /\ last.results[1] = last.results[2]
    /\ last.results[2].score < last.results[3].score
    /\ Cardinality({t \in DOMAIN last.query : last.query[t] > 0}) = 2

=============================================================================
